---- MODULE Spec2Model ----
(***************************************************************************)
(* Model of tableaudocumentapi.workbook.Workbook: the derivation of the    *)
(* data-source sequence and its weak name index from the XML tree, and the *)
(* add_datasource / remove_datasource mutation protocol.                   *)
(*                                                                         *)
(* The XML tree is kept as the places a <datasource> element can sit in,   *)
(* in document order:                                                      *)
(*   pre   <datasource> elements that are direct children of the root,     *)
(*         before the top-level <datasources> container                    *)
(*   top   the children of the top-level <datasources> container           *)
(*   post  <datasource> elements nested deeper (the <datasources> list of  *)
(*         a worksheet's view), after the container                        *)
(* plus the worksheets, dashboards and shapes containers.                  *)
(***************************************************************************)
EXTENDS Integers, Sequences, FiniteSets, TLC

\* ---------------------------------------------------------------- bounds
MaxInitElems == 2      \* <datasource> elements in the file that is opened
MaxGen == 2            \* derivations of the data-source sequence per run

\* ------------------------------------------------------------ value sets
NoFile == "<none>"                   \* _filename before __init__ has run
Strs == {"a", "b"}                   \* values of the name and caption attributes
ChildSeqs == {<< >>, <<"f">>}

\* An XML <datasource> element: its name and caption attributes and its child
\* elements, each a column given by its name.
Elem == [name : Strs, caption : Strs, kids : ChildSeqs]

Range(s) == {s[i] : i \in 1..Len(s)}

\* What find() gives for a container: None, or the element with its children.
NotFound == [found |-> FALSE, kids |-> << >>]
Container(kids) == [found |-> TRUE, kids |-> kids]

\* What a caller can pass where a Datasource is expected.
NoneArg == [kind |-> "None"]
NotADatasource == [kind |-> "object"]
DatasourceArg(e) == [kind |-> "Datasource", elem |-> e]

\* Datasource(xml): a fresh wrapper object around an element.  gen tells the
\* objects of one derivation from those of another; used is the set of
\* <<field, worksheet>> edges add_used_in recorded on the wrapper's fields.
Datasource(e, g) == [elem |-> e, gen |-> g, used |-> {}]

name(ds) == ds.elem.name
caption(ds) == ds.elem.caption
fields(ds) == Range(ds.elem.kids)

\* The identity of a wrapper object: what a weak reference refers to.
Ref(ds) == [elem |-> ds.elem, gen |-> ds.gen]

\* ------------------------------------------------------------- derivation
\* A derivation that stops one child short of the container's end.
_prepare_datasources_SkipLast(t, g) ==
    IF ~t.dsc \/ t.top = << >> THEN << >>
    ELSE [i \in 1..(Len(t.top) - 1) |-> Datasource(t.top[i], g)]

\* xml_root.find('datasources') and one wrapper per child, in document order.
_prepare_datasources(t, g) ==
    IF ~t.dsc THEN << >>
    ELSE [i \in 1..Len(t.top) |-> Datasource(t.top[i], g)]

\* A store that leaves an entry already made as it is.
PutKeepOld(f, k, v) ==
    [x \in (DOMAIN f) \cup {k} |-> IF x \in DOMAIN f THEN f[x] ELSE v]

Put(f, k, v) == [x \in (DOMAIN f) \cup {k} |-> IF x = k THEN v ELSE f[x]]

\* A first-write-wins loop: an entry already made is not overwritten.
RECURSIVE IndexLoopKeepFirst(_, _, _)
IndexLoopKeepFirst(dss, i, retval) ==
    IF i > Len(dss) THEN retval
    ELSE IndexLoopKeepFirst(dss, i + 1,
             IF name(dss[i]) \in DOMAIN retval THEN retval
             ELSE Put(retval, name(dss[i]), Ref(dss[i])))

RECURSIVE IndexLoop(_, _, _)
IndexLoop(dss, i, retval) ==
    IF i > Len(dss) THEN retval
    ELSE IndexLoop(dss, i + 1, Put(retval, name(dss[i]), Ref(dss[i])))

\* retval = WeakValueDictionary(); retval[datasource.name] = datasource
_prepare_datasource_index(dss) == IndexLoop(dss, 1, << >>)

\* The entries of a WeakValueDictionary whose referent is still alive.  The
\* only strong references the Workbook holds are those of its _datasources.
Alive(ref, dss) == \E i \in 1..Len(dss) : Ref(dss[i]) = ref
keys(idx, dss) == {n \in DOMAIN idx : Alive(idx[n], dss)}
Lookup(idx, dss, n) == CHOOSE d \in Range(dss) : Ref(d) = idx[n]

\* A loop over the dashboards that misses the first child.
_prepare_dashboards_SkipFirst(t) ==
    IF ~t.dashboards.found \/ t.dashboards.kids = << >> THEN << >>
    ELSE Tail(t.dashboards.kids)

_prepare_dashboards(t) == IF ~t.dashboards.found THEN << >> ELSE t.dashboards.kids
_prepare_shapes(t) == IF ~t.shapes.found THEN << >> ELSE t.shapes.kids

\* A column loop without the test that the column is a field.
Mark_NoFieldCheck(dss, ref, cols, w) ==
    [i \in 1..Len(dss) |->
        IF Ref(dss[i]) = ref
        THEN [dss[i] EXCEPT !.used = @ \cup {<<c, w>> : c \in Range(cols)}]
        ELSE dss[i]]

\* datasource.fields[column_name].add_used_in(worksheet_name) for every column
\* of one dependency that is a field of the data source.
Mark(dss, ref, cols, w) ==
    [i \in 1..Len(dss) |->
        IF Ref(dss[i]) = ref
        THEN [dss[i] EXCEPT !.used =
                 @ \cup {<<c, w>> : c \in Range(cols) \cap fields(dss[i])}]
        ELSE dss[i]]

\* The dependencies of one worksheet, from the i-th on.  ds_index[name] of a
\* name that is no key raises KeyError.
RECURSIVE DepLoop(_, _, _, _, _)
DepLoop(deps, i, w, idx, dss) ==
    IF i > Len(deps) THEN [err |-> "ok", dss |-> dss]
    ELSE IF deps[i].datasource \notin keys(idx, dss)
         THEN [err |-> "KeyError", dss |-> dss]
         ELSE DepLoop(deps, i + 1, w, idx,
                      Mark(dss, idx[deps[i].datasource], deps[i].columns, w))

RECURSIVE SheetLoop(_, _, _, _, _)
SheetLoop(sheets, i, names, idx, dss) ==
    IF i > Len(sheets) THEN [err |-> "ok", worksheets |-> names, dss |-> dss]
    ELSE LET r == DepLoop(sheets[i].deps, 1, sheets[i].name, idx, dss)
         IN IF r.err # "ok"
            THEN [err |-> r.err, worksheets |-> names, dss |-> r.dss]
            ELSE SheetLoop(sheets, i + 1, Append(names, sheets[i].name), idx, r.dss)

_prepare_worksheets(t, idx, dss) ==
    IF ~t.worksheets.found THEN [err |-> "ok", worksheets |-> << >>, dss |-> dss]
    ELSE SheetLoop(t.worksheets.kids, 1, << >>, idx, dss)

\* ------------------------------------------------------------------ state
VARIABLES
    phase,              \* "closed" before __init__, "open" after it, "failed" if it raised
    tree,               \* _workbookTree / _workbookRoot
    _filename,
    _dashboards,
    _datasources,
    _datasource_index,
    _worksheets,
    _shapes,
    nextGen,            \* the number the next derivation gives its wrapper objects
    saved,              \* the location xfile._save_file wrote to last
    last                \* the last call made and how it ended

vars == <<phase, tree, _filename, _dashboards, _datasources, _datasource_index,
          _worksheets, _shapes, nextGen, saved, last>>

derived == <<_filename, _dashboards, _datasources, _datasource_index,
             _worksheets, _shapes>>

\* ------------------------------------------------------- the files opened
Distinct(s) == \A i, j \in 1..Len(s) : i # j => s[i] # s[j]
SeqsUpTo(S, n) == UNION {[1..k -> S] : k \in 0..n}
Slice(s, i, j) == [k \in 1..(j - i) |-> s[i + k]]      \* s[i+1..j]

Dependency(d, cols) == [datasource |-> d, columns |-> cols]
Worksheet(w, deps) == [name |-> w, deps |-> deps]

WorksheetDocs ==
    {NotFound, Container(<<Worksheet("w", <<Dependency("a", <<"f">>)>>)>>)}
DashboardDocs == {NotFound}
ShapeDocs == {NotFound}

\* Every arrangement of at most MaxInitElems distinct <datasource> elements
\* over the three places; a tree without the container has no top children.
DatasourceDocs ==
    {[pre |-> Slice(s, 0, i), dsc |-> c, top |-> Slice(s, i, j),
      post |-> Slice(s, j, Len(s))] :
        <<s, i, j, c>> \in
            {x \in SeqsUpTo(Elem, MaxInitElems) \X (0..MaxInitElems)
                     \X (0..MaxInitElems) \X BOOLEAN :
                /\ Distinct(x[1])
                /\ x[2] <= x[3] /\ x[3] <= Len(x[1])
                /\ (~x[4] => x[2] = x[3])}}

Tree(d, ws, da, sh) ==
    [pre |-> d.pre, dsc |-> d.dsc, top |-> d.top, post |-> d.post,
     worksheets |-> ws, dashboards |-> da, shapes |-> sh]

Call(op, err) == [op |-> op, err |-> err]

Init ==
    /\ phase = "closed"
    /\ tree \in {Tree(d, ws, da, sh) : d \in DatasourceDocs, ws \in WorksheetDocs,
                                       da \in DashboardDocs, sh \in ShapeDocs}
    /\ _filename = NoFile
    /\ _dashboards = << >>
    /\ _datasources = << >>
    /\ _datasource_index = << >>
    /\ _worksheets = << >>
    /\ _shapes = << >>
    /\ nextGen = 1
    /\ saved = NoFile
    /\ last = Call("none", "ok")

\* ---------------------------------------------------------------- __init__
Open ==
    /\ phase = "closed"
    /\ UNCHANGED saved
    /\ LET dss == _prepare_datasources(tree, nextGen)
           idx == _prepare_datasource_index(dss)
           ws == _prepare_worksheets(tree, idx, dss)
       IN IF ws.err # "ok"
          THEN /\ phase' = "failed"
               /\ last' = Call("open", ws.err)
               /\ UNCHANGED <<tree, derived, nextGen>>
          ELSE /\ phase' = "open"
               /\ _filename' = "book.twb"
               /\ _dashboards' = _prepare_dashboards(tree)
               /\ _datasources' = ws.dss
               /\ _datasource_index' = idx
               /\ _worksheets' = ws.worksheets
               /\ _shapes' = _prepare_shapes(tree)
               /\ nextGen' = nextGen + 1
               /\ last' = Call("open", "ok")
               /\ UNCHANGED tree

\* ------------------------------------------------------------ add_datasource
DocOrder(t) == t.pre \o t.top \o t.post

Without(s, e) == SelectSeq(s, LAMBDA y : y # e)

RECURSIVE InsertAfter(_, _, _)
InsertAfter(s, a, e) ==
    IF s = << >> THEN << >>
    ELSE IF Head(s) = a THEN <<a, e>> \o Tail(s)
         ELSE <<Head(s)>> \o InsertAfter(Tail(s), a, e)

\* anchor.addnext(e): e becomes the sibling right after anchor, leaving the
\* place it had in the tree; adding an element next to itself does nothing.
addnext(t, anchor, e) ==
    IF e = anchor THEN t
    ELSE [t EXCEPT !.pre = InsertAfter(Without(@, e), anchor, e),
                   !.top = InsertAfter(Without(@, e), anchor, e),
                   !.post = InsertAfter(Without(@, e), anchor, e)]

\* An _add_datasource that has put the element into the tree by the time the
\* anchor turns out to have no child.
_add_datasource_EditFirst(t, e) ==
    IF DocOrder(t) = << >> THEN [err |-> "TypeError", tree |-> t]
    ELSE LET first == Head(DocOrder(t))
         IN IF first.kids = << >>
            THEN [err |-> "IndexError", tree |-> addnext(t, first, e)]
            ELSE [err |-> "ok", tree |-> addnext(t, first, e)]

\* folder_xml = find(".//datasource")[0]; folder_xml.getparent().addnext(xml)
\* find() gives None when the tree has no <datasource> (None[0]: TypeError);
\* [0] of an element without children is an IndexError.
_add_datasource(t, e) ==
    IF DocOrder(t) = << >> THEN [err |-> "TypeError", tree |-> t]
    ELSE LET first == Head(DocOrder(t))
         IN IF first.kids = << >> THEN [err |-> "IndexError", tree |-> t]
            ELSE [err |-> "ok", tree |-> addnext(t, first, e)]

\* weakref.getweakrefcount(d) of a WeakValueDictionary d: the dictionary's
\* own removal callback holds the one weak reference to it, entries or not.
getweakrefcount(idx) == 1

\* The checks of add_datasource, then _add_datasource.
AddOutcome(t, idx, dss, e) ==
    IF e.caption \in keys(idx, dss) THEN [err |-> "ValueError", tree |-> t]
    ELSE IF getweakrefcount(idx) = 0 THEN [err |-> "NotImplementedError", tree |-> t]
         ELSE _add_datasource(t, e)

\* A rebuild that forgets the index.
RebuildSequenceOnly(t) ==
    /\ _datasources' = _prepare_datasources(t, nextGen)
    /\ nextGen' = nextGen + 1
    /\ UNCHANGED _datasource_index

\* self._datasources and self._datasource_index rebuilt from the tree.
Rebuild(t) ==
    /\ _datasources' = _prepare_datasources(t, nextGen)
    /\ _datasource_index' =
           _prepare_datasource_index(_prepare_datasources(t, nextGen))
    /\ nextGen' = nextGen + 1

\* An add_datasource whose rebuild also empties the worksheet names.
add_datasource_ClearsSheets(e) ==
    /\ phase = "open"
    /\ LET r == AddOutcome(tree, _datasource_index, _datasources, e)
       IN /\ r.err = "ok" => nextGen <= MaxGen
          /\ last' = Call("add", r.err)
          /\ tree' = r.tree
          /\ IF r.err = "ok" THEN Rebuild(r.tree) /\ _worksheets' = << >>
             ELSE UNCHANGED <<_datasources, _datasource_index, nextGen, _worksheets>>
    /\ UNCHANGED <<phase, _filename, _dashboards, _shapes, saved>>

add_datasource(e) ==
    /\ phase = "open"
    /\ LET r == AddOutcome(tree, _datasource_index, _datasources, e)
       IN /\ r.err = "ok" => nextGen <= MaxGen
          /\ last' = Call("add", r.err)
          /\ tree' = r.tree
          /\ IF r.err = "ok" THEN Rebuild(r.tree)
             ELSE UNCHANGED <<_datasources, _datasource_index, nextGen>>
    /\ UNCHANGED <<phase, _filename, _dashboards, _worksheets, _shapes, saved>>

\* --------------------------------------------------------- remove_datasource
\* root.remove(xml): only a direct child of the root can be removed.
_remove_datasource(t, e) ==
    IF e \in Range(t.pre) THEN [err |-> "ok", tree |-> [t EXCEPT !.pre = Without(@, e)]]
    ELSE [err |-> "ValueError", tree |-> t]

\* A remove_datasource without the test that the name is an index key.
RemoveOutcome_NoNameCheck(t, idx, dss, arg) ==
    IF arg.kind # "Datasource" THEN [err |-> "ValueError", tree |-> t]
    ELSE _remove_datasource(t, arg.elem)

RemoveOutcome(t, idx, dss, arg) ==
    IF arg.kind # "Datasource" THEN [err |-> "ValueError", tree |-> t]
    ELSE IF arg.elem.name \notin keys(idx, dss) THEN [err |-> "NameError", tree |-> t]
         ELSE _remove_datasource(t, arg.elem)

remove_datasource(arg) ==
    /\ phase = "open"
    /\ LET r == RemoveOutcome(tree, _datasource_index, _datasources, arg)
       IN /\ r.err = "ok" => nextGen <= MaxGen
          /\ last' = Call("remove", r.err)
          /\ tree' = r.tree
          /\ IF r.err = "ok" THEN Rebuild(r.tree)
             ELSE UNCHANGED <<_datasources, _datasource_index, nextGen>>
    /\ UNCHANGED <<phase, _filename, _dashboards, _worksheets, _shapes, saved>>

Add == \E e \in Elem : add_datasource(e)
Args == {NoneArg, NotADatasource} \cup {DatasourceArg(e) : e \in Elem}
Remove == \E arg \in Args : remove_datasource(arg)

Next == Open \/ Add \/ Remove

Spec == Init /\ [][Next]_vars

\* ------------------------------------------------- accessors, save, save_as
Accessors == {"dashboards", "datasources", "worksheets", "filename", "shapes"}

\* A property read: return self._<attribute>.
Read(acc) ==
    /\ phase = "open"
    /\ last' = Call("read", "ok")
    /\ UNCHANGED <<phase, tree, derived, nextGen, saved>>

\* xfile._save_file(filename, tree, new_filename=None): the location the tree
\* is written to.
_save_file(filename, new_filename) ==
    IF new_filename = NoFile THEN filename ELSE new_filename

\* A save_as that takes the new location for the workbook's own.
save_as_Rename(new_filename) ==
    /\ phase = "open"
    /\ saved' = _save_file(_filename, new_filename)
    /\ _filename' = new_filename
    /\ last' = Call("save_as", "ok")
    /\ UNCHANGED <<phase, tree, _dashboards, _datasources, _datasource_index,
                   _worksheets, _shapes, nextGen>>

save ==
    /\ phase = "open"
    /\ saved' = _save_file(_filename, NoFile)
    /\ last' = Call("save", "ok")
    /\ UNCHANGED <<phase, tree, derived, nextGen>>

save_as(new_filename) ==
    /\ phase = "open"
    /\ saved' = _save_file(_filename, new_filename)
    /\ last' = Call("save_as", "ok")
    /\ UNCHANGED <<phase, tree, derived, nextGen>>

ReadAny == \E acc \in Accessors : Read(acc)
SaveAs == \E f \in {"book.twb", "copy.twb"} : save_as(f)

\* ----------------------------------------- a wider choice of files to open
Sheet1 == Worksheet("w", <<Dependency("a", <<"f", "g">>)>>)
Sheet2 == Worksheet("v", <<Dependency("b", <<"f">>), Dependency("a", <<"g">>)>>)
Sheet3 == Worksheet("u", << >>)

WorksheetDocsOpen ==
    {NotFound, Container(<< >>), Container(<<Sheet1>>), Container(<<Sheet3, Sheet1>>),
     Container(<<Sheet2, Sheet1>>)}
DashboardDocsOpen == {NotFound, Container(<< >>), Container(<<"d2", "d1">>)}
ShapeDocsOpen == {NotFound, Container(<<"s2", "s1">>)}

\* A few files: without the container, with an empty one, with one or two
\* data sources, with two of one name, and with a <datasource> directly
\* below the root.
Source(n, kids) == [name |-> n, caption |-> n, kids |-> kids]
Places(pre, dsc, top) == [pre |-> pre, dsc |-> dsc, top |-> top, post |-> << >>]

DatasourceDocsOpen ==
    {Places(<< >>, FALSE, << >>),
     Places(<< >>, TRUE, << >>),
     Places(<< >>, TRUE, <<Source("a", <<"f">>)>>),
     Places(<< >>, TRUE, <<Source("b", << >>)>>),
     Places(<< >>, TRUE, <<Source("a", <<"f">>), Source("b", <<"f">>)>>),
     Places(<< >>, TRUE, <<Source("a", << >>), Source("a", <<"f">>)>>),
     Places(<<Source("a", <<"f">>)>>, TRUE, <<Source("a", << >>), Source("b", <<"f">>)>>)}

InitOpen ==
    /\ phase = "closed"
    /\ tree \in {Tree(d, ws, da, sh) : d \in DatasourceDocsOpen,
                                       ws \in WorksheetDocsOpen,
                                       da \in DashboardDocsOpen,
                                       sh \in ShapeDocsOpen}
    /\ _filename = NoFile
    /\ _dashboards = << >>
    /\ _datasources = << >>
    /\ _datasource_index = << >>
    /\ _worksheets = << >>
    /\ _shapes = << >>
    /\ nextGen = 1
    /\ saved = NoFile
    /\ last = Call("none", "ok")

NextAll == Next \/ ReadAny \/ save \/ SaveAs

SpecOpen == InitOpen /\ [][NextAll]_vars

\* ================================================================== claims
Opened == phase = "open"
Names(dss) == {name(d) : d \in Range(dss)}
Elems(dss) == [i \in 1..Len(dss) |-> dss[i].elem]
InTree(t, e) == e \in Range(DocOrder(t))
Succeeded(op) == last.op = op /\ last.err = "ok"
Failed(op) == last.op = op /\ last.err # "ok"

\* C1 -- Index freshness: once the workbook is open, and after every
\* successful add_datasource or remove_datasource, the keys of the index are
\* exactly the names of the data sources of the current sequence, and every
\* entry of the index refers to an object of the current sequence.
IndexFreshness ==
    Opened =>
        /\ keys(_datasource_index, _datasources) = Names(_datasources)
        /\ DOMAIN _datasource_index = Names(_datasources)
        /\ \A n \in DOMAIN _datasource_index :
               Alive(_datasource_index[n], _datasources)

IndexFreshnessWitness ==
    /\ Succeeded("add")
    /\ Len(_datasources) >= 2
    /\ Cardinality(keys(_datasource_index, _datasources)) = 2

\* The last data source of the sequence that bears the name n.
LastNamed(dss, n) ==
    dss[CHOOSE i \in 1..Len(dss) :
            /\ name(dss[i]) = n
            /\ \A j \in (i + 1)..Len(dss) : name(dss[j]) # n]

\* C2 (as stated) -- Index completeness: for every data source D of the
\* sequence, looking up D.name in the index returns that same D.
IndexCompletenessAsStated ==
    Opened =>
        \A i \in 1..Len(_datasources) :
            /\ name(_datasources[i]) \in keys(_datasource_index, _datasources)
            /\ Lookup(_datasource_index, _datasources, name(_datasources[i]))
                   = _datasources[i]

\* C2 (amended) -- for every data source D of the sequence, D.name is a key of
\* the index and the lookup returns the last data source of the sequence that
\* bears that name: D itself when no later data source shares its name.
IndexCompleteness ==
    Opened =>
        \A i \in 1..Len(_datasources) :
            /\ name(_datasources[i]) \in keys(_datasource_index, _datasources)
            /\ Lookup(_datasource_index, _datasources, name(_datasources[i]))
                   = LastNamed(_datasources, name(_datasources[i]))

IndexCompletenessWitness ==
    /\ Opened
    /\ Len(_datasources) >= 2
    /\ name(_datasources[1]) = name(_datasources[2])
    /\ Lookup(_datasource_index, _datasources, name(_datasources[1]))
           = _datasources[2]

\* C3 -- Remove effect: for every data source D of the sequence,
\* remove_datasource(D) ends without error, D's element is no longer in the
\* tree, the sequence is the previous one without D, and D.name no longer
\* looks up D.
RemoveEffect ==
    [][\A i \in 1..Len(_datasources) :
           (Opened /\ remove_datasource(DatasourceArg(_datasources[i].elem)))
           => /\ last'.err = "ok"
              /\ ~InTree(tree', _datasources[i].elem)
              /\ Elems(_datasources')
                     = Without(Elems(_datasources), _datasources[i].elem)
              /\ \A d \in Range(_datasources') : d.elem # _datasources[i].elem]_vars

\* C4 -- Remove round-trip: on a document with at least one data source,
\* add_datasource(X) of an X that passes the add checks, then
\* remove_datasource(X), both succeed and give back the sequence and the key
\* set of the index there were before the add.
RemoveRoundTrip ==
    Opened =>
        \A e \in Elem :
            LET a == AddOutcome(tree, _datasource_index, _datasources, e)
                dss1 == _prepare_datasources(a.tree, nextGen)
                idx1 == _prepare_datasource_index(dss1)
                r == RemoveOutcome(a.tree, idx1, dss1, DatasourceArg(e))
                dss2 == _prepare_datasources(r.tree, nextGen + 1)
                idx2 == _prepare_datasource_index(dss2)
            IN (Len(_datasources) >= 1 /\ ~InTree(tree, e) /\ a.err = "ok")
               => /\ r.err = "ok"
                  /\ Elems(dss2) = Elems(_datasources)
                  /\ keys(idx2, dss2) = keys(_datasource_index, _datasources)

\* C5 -- Duplicate caption on add: add_datasource of a data source whose
\* caption is the caption of a data source of the document fails with
\* ValueError and leaves the sequence as it was.
DuplicateCaptionRejected ==
    [][\A e \in Elem :
           (/\ Opened
            /\ \E d \in Range(_datasources) : caption(d) = e.caption
            /\ add_datasource(e))
           => /\ last'.err = "ValueError"
              /\ _datasources' = _datasources]_vars

\* C6 -- Add without an anchor: add_datasource on a document with no data
\* source fails with NotImplementedError and changes nothing.
AddWithoutAnchorRejected ==
    [][(Opened /\ _datasources = << >> /\ Add)
           => /\ last'.err = "NotImplementedError"
              /\ UNCHANGED <<tree, _datasources, _datasource_index>>]_vars

\* C7 -- Failure atomicity: an add_datasource or remove_datasource call that
\* ends in an error leaves the tree, the sequence and the index as they were.
FailureAtomicity ==
    [][(last'.op \in {"add", "remove"} /\ last'.err # "ok")
           => UNCHANGED <<tree, _datasources, _datasource_index>>]_vars

FailureAtomicityWitness ==
    /\ Failed("add")
    /\ last.err = "IndexError"
    /\ Len(_datasources) >= 1

\* C8 -- Tree/derived-data consistency: in every state a caller can observe,
\* the data sources of the sequence wrap the children of the tree's top-level
\* data-sources container, in document order, and the sequence and the index
\* come from one and the same rebuild.
TreeConsistency ==
    Opened =>
        /\ Elems(_datasources) = (IF tree.dsc THEN tree.top ELSE << >>)
        /\ \A d \in Range(_datasources) : d.gen = nextGen - 1
        /\ \A n \in DOMAIN _datasource_index :
               _datasource_index[n].gen = nextGen - 1

TreeConsistencyWitness ==
    /\ Succeeded("add")
    /\ tree.dsc
    /\ Len(tree.top) >= 2
    /\ Elems(_datasources) = tree.top
    /\ _datasources[1].gen = 2

\* C9 -- Add effect: after a successful add_datasource(X) of an X whose
\* element was not in the tree, the sequence has one more entry, that entry
\* wraps X's element and comes right after the first data source there was,
\* the data sources there were keep their order, and X.name is an index key.
AddEffect ==
    [][\A e \in Elem :
           (Opened /\ ~InTree(tree, e) /\ add_datasource(e) /\ last'.err = "ok")
           => /\ Len(_datasources') = Len(_datasources) + 1
              /\ _datasources'[2].elem = e
              /\ Without(Elems(_datasources'), e) = Elems(_datasources)
              /\ e.name \in keys(_datasource_index', _datasources')]_vars

\* C10 -- Field-usage annotations survive add: every usage edge recorded on a
\* field of a data source of the sequence before a successful add_datasource
\* is recorded on the same field of the data source that wraps the same
\* element in the sequence after it.
UsageSurvivesAdd ==
    [][(Opened /\ Add /\ last'.err = "ok")
           => /\ _worksheets' = _worksheets
              /\ \A d \in Range(_datasources) :
                     \A edge \in d.used :
                         \E d2 \in Range(_datasources') :
                             d2.elem = d.elem /\ edge \in d2.used]_vars

\* The names of the data sources the top-level container holds.
TopNames(t) == {e.name : e \in Range(IF t.dsc THEN t.top ELSE << >>)}
Sheets(t) == Range(t.worksheets.kids)

\* A dependency declaration that names a data source the document has not.
StaleDeclaration(t) ==
    \E sheet \in Sheets(t) : \E dep \in Range(sheet.deps) :
        dep.datasource \notin TopNames(t)

\* C11 -- Tolerant dependency resolution: a dependency declaration whose data
\* source is no key of the index is skipped: opening the document succeeds,
\* every worksheet is derived, and the declaration changes no usage set.
TolerantResolution ==
    (last.op = "open" /\ StaleDeclaration(tree))
        => /\ phase = "open"
           /\ last.err = "ok"
           /\ Len(_worksheets) = Len(tree.worksheets.kids)

\* The usage edges the declarations of the document state for the data
\* source d: one per worksheet, declaration naming d and column that is a
\* field of d.
Stated(t, d) ==
    UNION {UNION {{<<c, sheet.name>> : c \in Range(dep.columns) \cap fields(d)} :
                     dep \in {x \in Range(sheet.deps) : x.datasource = name(d)}} :
              sheet \in Sheets(t)}

\* C12 -- Dependency resolution result: after open, the data source the
\* index gives for a name carries exactly the usage edges the declarations
\* state for it (worksheet W uses field C when a declaration of W names the
\* data source and lists a column C that is one of its fields); a column that
\* is no field records nothing, and no other edge exists.
ResolutionResult ==
    (Opened /\ nextGen = 2) =>
        \A d \in Range(_datasources) :
            d.used = (IF Lookup(_datasource_index, _datasources, name(d)) = d
                      THEN Stated(tree, d) ELSE {})

ResolutionResultWitness ==
    /\ Opened /\ nextGen = 2
    /\ \E d \in Range(_datasources) :
           /\ <<"f", "w">> \in d.used
           /\ <<"g", "w">> \notin d.used
           /\ \E sheet \in Sheets(tree) : \E dep \in Range(sheet.deps) :
                  /\ sheet.name = "w" /\ dep.datasource = name(d)
                  /\ "g" \in Range(dep.columns)

\* C13 -- Remove precondition errors: remove_datasource of None or of an
\* object that is no Datasource fails with ValueError; of a Datasource whose
\* name is no index key, with NameError; either way the tree, the sequence
\* and the index stay as they were.
RemovePreconditions ==
    [][\A arg \in Args :
           \/ last'.op # "remove"
           \/ /\ last'.err = (IF arg.kind # "Datasource" THEN "ValueError"
                              ELSE "NameError")
              /\ UNCHANGED <<tree, _datasources, _datasource_index>>
           \/ ~(/\ Opened
                /\ \/ arg.kind # "Datasource"
                   \/ arg.elem.name \notin keys(_datasource_index, _datasources)
                /\ remove_datasource(arg))]_vars

RemovePreconditionsWitness ==
    /\ Opened
    /\ last = Call("remove", "NameError")
    /\ Len(_datasources) >= 1
    /\ \E n \in Strs : n \notin keys(_datasource_index, _datasources)

\* C14 -- Name collisions are last-write-wins: when data sources of the
\* sequence share a name, the index was built without error, holds one entry
\* for the name, and gives the one that comes last in document order.
LastWriteWins ==
    Opened =>
        /\ Cardinality(DOMAIN _datasource_index) = Cardinality(Names(_datasources))
        /\ \A i, j \in 1..Len(_datasources) :
               (i < j /\ name(_datasources[i]) = name(_datasources[j]))
               => /\ name(_datasources[i]) \in keys(_datasource_index, _datasources)
                  /\ _datasource_index[name(_datasources[i])] # Ref(_datasources[i])
                  /\ \E k \in j..Len(_datasources) :
                         _datasource_index[name(_datasources[i])] = Ref(_datasources[k])

LastWriteWinsWitness ==
    /\ Succeeded("add")
    /\ Len(_datasources) = 2
    /\ name(_datasources[1]) = name(_datasources[2])
    /\ _datasource_index[name(_datasources[1])] = Ref(_datasources[2])

\* C15 -- Open-time derivation: in an opened workbook each of datasources,
\* worksheets, dashboards and shapes has one entry per child of its container,
\* in document order, and is empty when the container is not in the tree.
SameNames(seq, container) ==
    /\ Len(seq) = Len(container.kids)
    /\ \A i \in 1..Len(seq) : seq[i] = container.kids[i]
    /\ ~container.found => seq = << >>

OpenDerivation ==
    (Opened /\ nextGen = 2) =>
        /\ SameNames(_dashboards, tree.dashboards)
        /\ SameNames(_shapes, tree.shapes)
        /\ Len(_worksheets) = Len(tree.worksheets.kids)
        /\ \A i \in 1..Len(_worksheets) : _worksheets[i] = tree.worksheets.kids[i].name
        /\ ~tree.worksheets.found => _worksheets = << >>
        /\ Len(_datasources) = Len(tree.top)
        /\ \A i \in 1..Len(_datasources) : _datasources[i].elem = tree.top[i]
        /\ ~tree.dsc => _datasources = << >>

OpenDerivationWitness ==
    /\ last = Call("open", "ok")
    /\ _dashboards = <<"d2", "d1">>
    /\ _shapes = <<"s2", "s1">>
    /\ _worksheets = <<"v", "w">>
    /\ Len(_datasources) = 2

\* C16 -- Read-only operations change nothing: a read of dashboards,
\* datasources, worksheets, shapes or filename, a save and a save_as leave the
\* tree, the four derived sequences and their objects, the index and the
\* filename as they were; save_as(new) writes to new and filename stays.
ReadOnlyFrame ==
    [][(last'.op \in {"read", "save", "save_as"})
           => /\ UNCHANGED <<tree, derived, nextGen>>
              /\ last'.op = "save" => saved' = _filename]_vars

ReadOnlyFrameWitness ==
    /\ last = Call("save_as", "ok")
    /\ saved = "copy.twb"
    /\ _filename = "book.twb"
    /\ Len(_datasources) >= 1

\* C17 -- Mutation frame: every add_datasource and remove_datasource call,
\* successful or failed, leaves worksheets, dashboards, shapes and filename as
\* they were, which is as the open derived them from the tree.
MutationFrame ==
    [][(last'.op \in {"add", "remove"})
           => /\ UNCHANGED <<_worksheets, _dashboards, _shapes, _filename>>
              /\ SameNames(_dashboards', tree'.dashboards)
              /\ SameNames(_shapes', tree'.shapes)
              /\ Len(_worksheets') = Len(tree'.worksheets.kids)]_vars

MutationFrameWitness ==
    /\ Succeeded("add")
    /\ _worksheets = <<"u", "w">>
    /\ _dashboards = <<"d2", "d1">>
    /\ _shapes = <<"s2", "s1">>
    /\ _filename = "book.twb"

====
